---- MODULE Spec2Model ----
(***************************************************************************)
(* rssel: the feed ingestion and synchronisation pipeline of src/rssel.py. *)
(* The item store (feeds, feed_groups, items), a fetch run (cmd_fetch) and *)
(* a sync run (cmd_sync: Fetch, Tag, Export) are modelled as a state       *)
(* machine.  A run is one process: it is stepped feed by feed and stage by *)
(* stage, and no other command runs while it is in progress.               *)
(* Spec has the fetch runs, SpecSync the sync runs and delete, SpecAll     *)
(* both interleaved.                                                       *)
(***************************************************************************)
EXTENDS Integers, Sequences, FiniteSets, TLC

VARIABLES
    sources,      \* parsed sources.json: sequence of [url, groups, tier]
    feeds,        \* table feeds: set of [url, rowid, grp, tier, archived, last_fetch_ts]
    feed_groups,  \* table feed_groups: set of <<url, grp>>
    items,        \* table items: set of rows
    item_seq,     \* sqlite_sequence of items (last AUTOINCREMENT id handed out)
    tags,         \* table tags: set of names
    clock,        \* wall clock, in run ticks (always > 0 once a run started)
    run,          \* the command in progress (its position, arguments and report)
    out           \* what the last read-only command (list, tags auto --dry-run) printed

vars == <<sources, feeds, feed_groups, items, item_seq, tags, clock, run, out>>

(* ------------------------------ bounds --------------------------------- *)
MaxItemId == 3     \* rows ever inserted into items
MaxClock == 2      \* runs started

(* ------------------------- values and strings -------------------------- *)
None == "None"               \* Python None / SQL NULL
WS == " "                    \* a string of white space only
Truthy(s) == s \notin {None, ""}
PyOr(a, b) == IF Truthy(a) THEN a ELSE b
Strip(s) == IF s = WS THEN "" ELSE s
Sha1(s) == "sha1:" \o s

Urls == {"u1", "u2"}

(* ------------------------------- inputs -------------------------------- *)
Src(u, gs, t) == [url |-> u, groups |-> gs, tier |-> t]
SourceFiles ==
    { << Src("u1", <<"g1">>, 1), Src("u2", <<"g2", "g1">>, 3) >>,
      << Src("u1", <<"g1">>, 1), Src("u1", <<"g2">>, 3) >>,
      << Src("u1", << >>, 3) >> }

Entry(f, g, l, t) == [fmt |-> f, guid |-> g, link |-> l, title |-> t]
\* Feed documents a server may return.  "bad" is a document that is not XML.
Doc(es) == [xml |-> TRUE, entries |-> es]
BadDoc == [xml |-> FALSE, entries |-> << >>]
Payloads ==
    << Doc(<< Entry("rss", "ga", "l1", "t1") >>),
       Doc(<< Entry("rss", "gb", "l1", "t1") >>),
       Doc(<< Entry("rss", None, "l1", "t1") >>),
       Doc(<< Entry("atomns", "ga", "l1", "t1") >>),
       Doc(<< Entry("atom", None, WS, ""), Entry("rss", None, None, "") >>),
       BadDoc,
       Doc(<< Entry("rss", None, None, None) >>),
       Doc(<< Entry("rss", None, None, "") >>) >>
\* What the servers return to a fetch run, and to a sync run.
FetchPayloads == 1..Len(Payloads)
SyncPayloads == {1, 4}

(* ------------------------------ parse_feed ----------------------------- *)
\* One entry as parse_feed reads it.  In a namespaced Atom document every
\* element found through the "atom:" prefix is a childless Element, which is
\* falsy, so "find(ns) or find(plain)" falls through to the plain lookup and
\* yields None.
ParseEntry(e) ==
    LET title == IF e.fmt = "atomns" THEN None ELSE e.title
        link == IF e.fmt = "atomns" THEN None ELSE e.link
        gid == IF e.fmt = "atomns" THEN None ELSE e.guid
    IN [guid |-> PyOr(PyOr(gid, link), title), title |-> title, link |-> link,
        published_ts |-> 0]

parse_feed(raw) ==
    IF ~raw.xml THEN << >>
    ELSE [i \in 1..Len(raw.entries) |-> ParseEntry(raw.entries[i])]

\* The dedup key, as cmd_fetch computes it.
UidFetch(it) ==
    LET base == Strip(PyOr(PyOr(PyOr(it.guid, it.link), it.title), ""))
    IN IF base # "" THEN Sha1(base) ELSE None

\* The dedup key, as cmd_sync computes it.
UidSync(it) ==
    LET b == PyOr(PyOr(it.guid, it.link), it.title)
    IN IF Truthy(b) THEN Sha1(Strip(PyOr(b, ""))) ELSE None

(* ------------------------------ item store ----------------------------- *)
\* A store without uniqueness constraints: nothing conflicts.
ConflictsNever(rows, url, guid, uid) == FALSE

\* Uniqueness constraints under which two NULLs are equal.
ConflictsNulls(rows, url, guid, uid) ==
    \E r \in rows : r.feed_url = url /\ (r.guid = guid \/ r.uid = uid)

\* INSERT OR IGNORE under UNIQUE(feed_url, guid) and the unique index on
\* (feed_url, uid); NULLs never conflict.
Conflicts(rows, url, guid, uid) ==
    \E r \in rows :
        /\ r.feed_url = url
        /\ \/ (guid # None /\ r.guid = guid)
           \/ (uid # None /\ r.uid = uid)

\* An insert that stamps the tag watermark of the new row.
NewRowStamped(id, url, it, uid, now) ==
    [id |-> id, feed_url |-> url, guid |-> it.guid, uid |-> uid,
     title |-> it.title, link |-> it.link,
     published_ts |-> IF it.published_ts # 0 THEN it.published_ts ELSE now,
     created_ts |-> now,
     read |-> 0, starred |-> 0, deleted |-> 0,
     auto_tagged_ts |-> now, fs_exported_ts |-> 0, tags |-> {}]

\* The row INSERT OR IGNORE adds: flags and watermarks take the column defaults.
NewRow(id, url, it, uid, now) ==
    [id |-> id, feed_url |-> url, guid |-> it.guid, uid |-> uid,
     title |-> it.title, link |-> it.link,
     published_ts |-> IF it.published_ts # 0 THEN it.published_ts ELSE now,
     created_ts |-> now,
     read |-> 0, starred |-> 0, deleted |-> 0,
     auto_tagged_ts |-> 0, fs_exported_ts |-> 0, tags |-> {}]

\* An insert loop with INSERT OR REPLACE: a conflicting row is deleted and the
\* entry is inserted as a new row.
RECURSIVE InsertAllReplace(_, _, _, _, _, _)
InsertAllReplace(db, url, its, i, sync, now) ==
    IF i > Len(its) THEN db
    ELSE LET it == its[i]
             uid == IF sync THEN UidSync(it) ELSE UidFetch(it)
             old == {r \in db.rows : Conflicts({r}, url, it.guid, uid)}
             nxt == [rows |-> (db.rows \ old) \cup {NewRow(db.seq + 1, url, it, uid, now)},
                     seq |-> db.seq + 1]
         IN InsertAllReplace(nxt, url, its, i + 1, sync, now)

\* The insert loop of one feed: db is [rows, seq].
RECURSIVE InsertAll(_, _, _, _, _, _)
InsertAll(db, url, its, i, sync, now) ==
    IF i > Len(its) THEN db
    ELSE LET it == its[i]
             uid == IF sync THEN UidSync(it) ELSE UidFetch(it)
             nxt == IF Conflicts(db.rows, url, it.guid, uid) THEN db
                    ELSE [rows |-> db.rows \cup {NewRow(db.seq + 1, url, it, uid, now)},
                          seq |-> db.seq + 1]
         IN InsertAll(nxt, url, its, i + 1, sync, now)

\* The entries of a parsed document that no row of the feed repeats field by
\* field (guid, title, link): the content the store has not seen yet.
Unseen(rows, url, its) ==
    Cardinality({i \in 1..Len(its) :
        ~\E r \in rows : /\ r.feed_url = url /\ r.guid = its[i].guid
                         /\ r.title = its[i].title /\ r.link = its[i].link})

\* A count that only says whether anything is new.
Max0Flag(n) == IF n > 0 THEN 1 ELSE 0

Max0(n) == IF n > 0 THEN n ELSE 0
CountItems(rows, url) == Cardinality({r \in rows : r.feed_url = url})

(* ------------------------------ feeds table ---------------------------- *)
HasFeed(fs, u) == \E f \in fs : f.url = u
MaxRowid(fs) == IF fs = {} THEN 0
                ELSE CHOOSE n \in {f.rowid : f \in fs} : \A f \in fs : f.rowid <= n
\* A lookup by rowid that does not look at the archived flag.
UrlsByRowidAny(fs, ids) == {f.url : f \in {g \in fs : g.rowid \in ids}}

UrlsByRowid(fs, ids) == {f.url : f \in {g \in fs : g.rowid \in ids /\ g.archived = 0}}
SeqToSet(s) == {s[i] : i \in 1..Len(s)}

\* args.group is a raw string; the model keeps the set of labels it parses to.
\* upsert_feeds compares the raw string with each label, so a list of two
\* labels equals none of them.
OnlyGroup(G) == IF G = {} THEN None
                ELSE IF Cardinality(G) = 1 THEN CHOOSE g \in G : TRUE
                ELSE "g1,g2"

\* One entry of upsert_feeds: db is [feeds, fg].
UpsertOne(db, e, only_group) ==
    LET groups == e.groups
        gset == SeqToSet(groups)
        primary == IF Len(groups) > 0 THEN groups[1] ELSE "ungrouped"
        fs1 == IF HasFeed(db.feeds, e.url)
               THEN {IF f.url = e.url THEN [f EXCEPT !.grp = primary, !.tier = e.tier]
                     ELSE f : f \in db.feeds}
               ELSE db.feeds \cup {[url |-> e.url, rowid |-> MaxRowid(db.feeds) + 1,
                                    grp |-> primary, tier |-> e.tier,
                                    archived |-> 0, last_fetch_ts |-> 0]}
        listed == IF Len(groups) > 0 THEN gset ELSE {primary}
        added == {<<e.url, g>> : g \in {h \in listed : only_group = None \/ h = only_group}}
        fg1 == db.fg \cup added
        fg2 == IF Len(groups) > 0 THEN fg1 \ {<<e.url, "ungrouped">>} ELSE fg1
    IN IF only_group # None /\ only_group \notin gset THEN db
       ELSE [feeds |-> fs1, fg |-> fg2]

RECURSIVE upsert_feeds(_, _, _, _)
upsert_feeds(db, entries, only_group, i) ==
    IF i > Len(entries) THEN db
    ELSE upsert_feeds(UpsertOne(db, entries[i], only_group), entries, only_group, i + 1)

\* The duplicate-URL validation of cmd_fetch.
DupUrls(entries) ==
    {entries[i].url : i \in {j \in 1..Len(entries) :
                                \E k \in 1..(j - 1) : entries[k].url = entries[j].url}}

(* ------------------------------ selection ------------------------------ *)
\* A selector: --id (at most one number), --ids, --source (a URL or a numeric
\* string), --group, --tier.
Sel(id, ids, source, group, tier) ==
    [id |-> id, ids |-> ids, source |-> source, group |-> group, tier |-> tier]
\* The selectors given to a fetch run, and to a sync run.
FetchSelections ==
    { Sel({}, {}, None, {}, {}),
      Sel({}, {}, None, {"g2"}, {}),
      Sel({}, {}, None, {"g1"}, {}),
      Sel({}, {}, None, {}, {1}),
      Sel({1}, {}, None, {}, {}),
      Sel({}, {1, 2}, None, {}, {}),
      Sel({}, {}, "u2", {}, {}) }
SyncSelections ==
    { Sel({}, {}, None, {}, {}),
      Sel({}, {}, None, {"g2"}, {}),
      Sel({1}, {}, None, {}, {}),
      Sel({1}, {}, None, {"g2"}, {}),
      Sel({}, {}, None, {}, {1}) }

Explicit(a) == a.id # {} \/ a.ids # {} \/ a.source # None
IsInt(s) == s \in {"1", "2"}
ToInt(s) == IF s = "1" THEN 1 ELSE 2

\* "--source URL" inserts a minimal feed row when the URL is unknown.
EnsureSource(fs, a) ==
    IF a.source # None /\ ~IsInt(a.source) /\ ~HasFeed(fs, a.source)
    THEN fs \cup {[url |-> a.source, rowid |-> MaxRowid(fs) + 1, grp |-> "ungrouped",
                   tier |-> 3, archived |-> 0, last_fetch_ts |-> 0]}
    ELSE fs

\* The explicit branch, common to cmd_fetch and cmd_sync (fs already holds the
\* row EnsureSource adds).
ExplicitUrls(fs, a) ==
    UrlsByRowid(fs, a.id) \cup UrlsByRowid(fs, a.ids)
    \cup (IF a.source = None THEN {}
          ELSE IF IsInt(a.source) THEN UrlsByRowid(fs, {ToInt(a.source)})
          ELSE {f.url : f \in {g \in fs : g.url = a.source /\ g.archived = 0}})

\* A group filter that asks for membership of every listed group.
InGroupsAll(fg, u, G) == \A g \in G : <<u, g>> \in fg

InGroups(fg, u, G) == \E g \in G : <<u, g>> \in fg

FetchFeedUrls(fs, fg, a) ==
    IF Explicit(a) THEN ExplicitUrls(fs, a)
    ELSE IF a.group # {} \/ a.tier # {}
    THEN {f.url : f \in {g \in fs : /\ g.archived = 0
                                    /\ (a.group = {} \/ InGroups(fg, g.url, a.group))
                                    /\ (a.tier = {} \/ g.tier \in a.tier)}}
    ELSE {f.url : f \in {g \in fs : g.archived = 0}}

SyncFeedUrls(fs, fg, a) ==
    IF Explicit(a) THEN ExplicitUrls(fs, a)
    ELSE IF a.group # {}
    THEN {f.url : f \in {g \in fs : g.archived = 0 /\ InGroups(fg, g.url, a.group)}}
    ELSE {f.url : f \in {g \in fs : g.archived = 0}}

(* ------------------------------- sync flags ---------------------------- *)
\* The flags and configuration keys the Tag and Export stages read:
\* --no-auto-tags (auto_tags), sync_auto_tags (cfg_auto), --retag-all,
\* sync_write_files (cfg_write), --write-file, --export-all, --clean,
\* --unread-only, --limit (0: not given), --max-tags (sync_max_tags when not
\* given).
DefaultMaxTags == 5
Flags(at, ca, ra, cw, wf, ea, cl, uo, lim) ==
    [auto_tags |-> at, cfg_auto |-> ca, retag_all |-> ra, cfg_write |-> cw,
     write_file |-> wf, export_all |-> ea, clean |-> cl, unread_only |-> uo,
     limit |-> lim, max_tags |-> DefaultMaxTags]
MaxTags(fl, n) == [fl EXCEPT !.max_tags = n]
DefaultFlags == Flags(TRUE, TRUE, FALSE, TRUE, FALSE, FALSE, FALSE, FALSE, 0)
SyncFlags ==
    { DefaultFlags,
      Flags(TRUE, TRUE, TRUE, TRUE, FALSE, FALSE, FALSE, FALSE, 0),
      Flags(TRUE, TRUE, FALSE, TRUE, FALSE, TRUE, FALSE, FALSE, 0),
      Flags(FALSE, TRUE, FALSE, TRUE, FALSE, FALSE, FALSE, FALSE, 0),
      Flags(TRUE, FALSE, TRUE, TRUE, FALSE, FALSE, FALSE, FALSE, 0),
      Flags(TRUE, TRUE, FALSE, FALSE, FALSE, FALSE, FALSE, FALSE, 0),
      Flags(TRUE, TRUE, FALSE, FALSE, TRUE, FALSE, FALSE, FALSE, 0),
      Flags(TRUE, TRUE, FALSE, FALSE, FALSE, TRUE, FALSE, FALSE, 0),
      Flags(TRUE, TRUE, TRUE, TRUE, FALSE, TRUE, FALSE, FALSE, 1),
      MaxTags(Flags(TRUE, TRUE, TRUE, TRUE, FALSE, FALSE, FALSE, FALSE, 0), 1) }

(* -------------------------------- the run ------------------------------ *)
DefaultSel == Sel({}, {}, None, {}, {})
NoOutcome == [u \in Urls |-> "none"]
NoCount == [u \in Urls |-> 0]

\* The record of a command.  pc: "idle" (no command in progress), "fetch"
\* (the feed loop), "tag", "export" (the stages of cmd_sync still to run),
\* "done" (the command has returned or died; its report is what it printed).
\* Per feed the run reports seen (entries parsed) and new (rows inserted); the
\* record also keeps unseen (see Unseen).
Cmd(pc, cmd, rc, a, urls, after) ==
    [pc |-> pc, cmd |-> cmd, rc |-> rc, crashed |-> FALSE,
     sel |-> a, feed_urls |-> urls, pending |-> urls,
     outcome |-> NoOutcome, seen |-> NoCount, unseen |-> NoCount,
     new |-> NoCount, total_new |-> 0,
     tag_ran |-> FALSE, tagged |-> {}, export_ran |-> FALSE, exported |-> {},
     flags |-> DefaultFlags, after_default |-> after]
Idle(cmd) == Cmd("idle", cmd, 0, DefaultSel, {}, FALSE)
Done(cmd, rc) == Cmd("done", cmd, rc, DefaultSel, {}, FALSE)

\* A completed default sync run: no selector, default flags, no crash.
DefaultSyncDone(r) ==
    /\ r.pc = "done" /\ r.cmd = "sync" /\ ~r.crashed
    /\ r.sel = DefaultSel /\ r.flags = DefaultFlags

\* Nothing printed yet.
NoOut == [cmd |-> "none"]

Init ==
    /\ sources \in SourceFiles
    /\ feeds = {}
    /\ feed_groups = {}
    /\ items = {}
    /\ item_seq = 0
    /\ tags = {}
    /\ clock = 0
    /\ run = Idle("none")
    /\ out = NoOut

\* The process of a command exits; what remains is which command ran last.
Return ==
    /\ run.pc = "done"
    /\ run' = Idle(IF DefaultSyncDone(run) THEN "sync_default" ELSE "other")
    /\ out' = NoOut
    /\ UNCHANGED <<sources, feeds, feed_groups, items, item_seq, tags, clock>>

\* cmd_fetch up to the feed loop: validation, upsert, selection.
FetchStart ==
    /\ run.pc = "idle"
    /\ clock < MaxClock
    /\ \E a \in FetchSelections :
        IF DupUrls(sources) # {}
        THEN /\ run' = Done("fetch", 1)
             /\ UNCHANGED <<feeds, feed_groups, clock>>
        ELSE LET db == upsert_feeds([feeds |-> feeds, fg |-> feed_groups], sources,
                                    IF Explicit(a) THEN None ELSE OnlyGroup(a.group), 1)
                 fs == IF Explicit(a) THEN EnsureSource(db.feeds, a) ELSE db.feeds
             IN /\ feeds' = fs
                /\ feed_groups' = db.fg
                /\ clock' = clock + 1
                /\ run' = Cmd("fetch", "fetch", 0, a, FetchFeedUrls(fs, db.fg, a), FALSE)
    /\ UNCHANGED <<sources, items, item_seq, tags, out>>

\* cmd_sync up to the feed loop: upsert, selection.
SyncStart ==
    /\ run.pc = "idle"
    /\ clock < MaxClock
    /\ \E a \in SyncSelections :
        LET db == upsert_feeds([feeds |-> feeds, fg |-> feed_groups], sources,
                               IF Explicit(a) THEN None ELSE OnlyGroup(a.group), 1)
            fs == IF Explicit(a) THEN EnsureSource(db.feeds, a) ELSE db.feeds
        IN /\ feeds' = fs
           /\ feed_groups' = db.fg
           /\ clock' = clock + 1
           /\ run' = Cmd("fetch", "sync", 0, a, SyncFeedUrls(fs, db.fg, a),
                         run.cmd = "sync_default")
    /\ UNCHANGED <<sources, items, item_seq, tags, out>>

\* One iteration of the feed loop of cmd_fetch whose fetch returned a document.
FetchFeed ==
    /\ run.pc = "fetch" /\ run.cmd = "fetch"
    /\ \E u \in run.pending, p \in FetchPayloads :
        LET its == parse_feed(Payloads[p])
            before_count == CountItems(items, u)
            db == InsertAll([rows |-> items, seq |-> item_seq], u, its, 1, FALSE, clock)
            delta_new == Max0(CountItems(db.rows, u) - before_count)
        IN /\ item_seq + Len(its) <= MaxItemId
           /\ items' = db.rows
           /\ item_seq' = db.seq
           /\ feeds' = {IF f.url = u THEN [f EXCEPT !.last_fetch_ts = clock] ELSE f
                        : f \in feeds}
           /\ run' = [run EXCEPT !.pending = @ \ {u}, !.outcome[u] = "ok",
                                 !.seen[u] = Len(its),
                                 !.unseen[u] = Unseen(items, u, its),
                                 !.new[u] = delta_new, !.total_new = @ + delta_new]
    /\ UNCHANGED <<sources, feed_groups, tags, clock, out>>

\* One iteration of the feed loop of cmd_sync whose fetch returned a document.
SyncFeed ==
    /\ run.pc = "fetch" /\ run.cmd = "sync"
    /\ \E u \in run.pending, p \in SyncPayloads :
        LET its == parse_feed(Payloads[p])
            before_count == CountItems(items, u)
            db == InsertAll([rows |-> items, seq |-> item_seq], u, its, 1, TRUE, clock)
            new_count == Max0(CountItems(db.rows, u) - before_count)
        IN /\ item_seq + Len(its) <= MaxItemId
           /\ items' = db.rows
           /\ item_seq' = db.seq
           /\ run' = [run EXCEPT !.pending = @ \ {u}, !.outcome[u] = "ok",
                                 !.seen[u] = Len(its),
                                 !.unseen[u] = Unseen(items, u, its),
                                 !.new[u] = new_count, !.total_new = @ + new_count]
    /\ UNCHANGED <<sources, feeds, feed_groups, tags, clock, out>>

\* _fetch_with_debug caught URLError, HTTPError or a timeout and returned
\* None: the loop continues with the next feed.
FeedSkip ==
    /\ run.pc = "fetch"
    /\ \E u \in run.pending :
        run' = [run EXCEPT !.pending = @ \ {u}, !.outcome[u] = "skip"]
    /\ UNCHANGED <<sources, feeds, feed_groups, items, item_seq, tags, clock, out>>

\* _fetch_with_debug raised an exception it does not catch (ValueError for a
\* URL without scheme, http.client.IncompleteRead, RemoteDisconnected, ...):
\* nothing up to main catches it and the process ends with a traceback.
FeedRaise ==
    /\ run.pc = "fetch"
    /\ \E u \in run.pending :
        run' = [run EXCEPT !.pc = "done", !.rc = 1, !.crashed = TRUE,
                           !.outcome[u] = "raise"]
    /\ UNCHANGED <<sources, feeds, feed_groups, items, item_seq, tags, clock, out>>

\* cmd_fetch after the loop.
FetchDone ==
    /\ run.pc = "fetch" /\ run.cmd = "fetch" /\ run.pending = {}
    /\ run' = [run EXCEPT !.pc = "done"]
    /\ UNCHANGED <<sources, feeds, feed_groups, items, item_seq, tags, clock, out>>

(* ------------------------------ auto-tagging --------------------------- *)
\* A text is kept as a string; Words gives the pieces re.split(r"[^\w\-]+")
\* cuts its lower-cased form into.
Words(text) ==
    IF text = "t1" THEN << "rust", "the", "42", "go", "news", "rust" >>
    ELSE IF text = "t2" THEN << "go", "-123-", "news", "_the_", "--", "" >>
    ELSE IF text = "t3" THEN << "zebra", "apple", "mango", "kiwi", "lemon", "grape",
                                "apple", "news" >>
    ELSE << >>
\* The tokens, in str order.
Vocabulary ==
    << "", "123", "42", "apple", "go", "grape", "kiwi", "lemon", "mango", "news",
       "rust", "the", "zebra" >>
Alpha(w) == CHOOSE i \in 1..Len(Vocabulary) : Vocabulary[i] = w
IsDigit(w) == w \in {"42", "123"}
StripHyphens(w) ==
    IF w = "-123-" THEN "123" ELSE IF w = "_the_" THEN "the" ELSE IF w = "--" THEN "" ELSE w
Stopwords == {"the"}
MinLen == 3

_tokenize(text) ==
    LET kept == SelectSeq(Words(text), LAMBDA w : w # "" /\ ~IsDigit(w))
    IN [i \in 1..Len(kept) |-> StripHyphens(kept[i])]

Occurrences(ws, w) == Cardinality({i \in 1..Len(ws) : ws[i] = w})

RECURSIVE Ranked(_, _, _)
Ranked(cands, weight, n) ==
    IF n = 0 \/ cands = {} THEN << >>
    ELSE LET best == CHOOSE w \in cands : \A v \in cands :
                        \/ weight[w] > weight[v]
                        \/ (weight[w] = weight[v] /\ Alpha(w) <= Alpha(v))
         IN << best >> \o Ranked(cands \ {best}, weight, n - 1)

extract_auto_tags(title, body_text, max_tags) ==
    LET keep(ws) == SelectSeq(ws, LAMBDA w : Len(w) >= MinLen /\ w \notin Stopwords)
        bw == keep(_tokenize(PyOr(body_text, "")))
        tw == keep(_tokenize(PyOr(title, "")))
        cands == SeqToSet(bw) \cup SeqToSet(tw)
        weight == [w \in cands |-> Occurrences(bw, w) + 2 * Occurrences(tw, w)]
    IN Ranked(cands, weight, max_tags)

\* A tag application that adds to the associations the item already has.
replace_item_tagsKeep(r, names, now) ==
    [r EXCEPT !.tags = @ \cup (SeqToSet(names) \ {""}), !.auto_tagged_ts = now]

\* replace_item_tags on one row: delete the item's associations, insert the
\* new ones (upsert_tag drops an empty name).
replace_item_tags(r, names, now) ==
    [r EXCEPT !.tags = SeqToSet(names) \ {""}, !.auto_tagged_ts = now]

\* A Tag stage query that keeps the watermark condition under --retag-all.
SyncTagRowsPendingOnly(rows, fs, fg, G, retag_all) ==
    {r \in rows : /\ HasFeed(fs, r.feed_url)
                  /\ r.deleted = 0
                  /\ (G = {} \/ InGroups(fg, r.feed_url, G))
                  /\ r.auto_tagged_ts = 0}

\* The rows the Tag stage of cmd_sync selects.
SyncTagRows(rows, fs, fg, G, retag_all) ==
    {r \in rows : /\ HasFeed(fs, r.feed_url)
                  /\ r.deleted = 0
                  /\ (G = {} \/ InGroups(fg, r.feed_url, G))
                  /\ (retag_all \/ r.auto_tagged_ts = 0)}

Ids(rows) == {r.id : r \in rows}

\* A Tag stage that starts while feeds are still to be fetched.
FetchStageDoneEarly(r) == r.pc = "fetch" /\ r.cmd = "sync"

\* The feed loop of cmd_sync has gone through every selected feed.
FetchStageDone(r) == r.pc = "fetch" /\ r.cmd = "sync" /\ r.pending = {}

\* The Tag stage of cmd_sync.  The flags are fixed when the process starts; they
\* are drawn here, where the code first reads them.
SyncTag ==
    /\ FetchStageDone(run)
    /\ \E fl \in SyncFlags :
        LET effective_auto == fl.auto_tags /\ fl.cfg_auto
            rows == IF effective_auto
                    THEN SyncTagRows(items, feeds, feed_groups, run.sel.group, fl.retag_all)
                    ELSE {}
            tagged == {replace_item_tags(r, extract_auto_tags(r.title, "", fl.max_tags),
                                         clock) : r \in rows}
        IN /\ items' = (items \ rows) \cup tagged
           /\ tags' = tags \cup UNION {r.tags : r \in tagged}
           /\ run' = [run EXCEPT !.pc = "export", !.flags = fl,
                                 !.tag_ran = effective_auto, !.tagged = Ids(rows)]
    /\ UNCHANGED <<sources, feeds, feed_groups, item_seq, clock, out>>

\* ORDER BY published_ts DESC, id DESC.
Before(a, b) ==
    \/ a.published_ts > b.published_ts
    \/ (a.published_ts = b.published_ts /\ a.id > b.id)

\* LIMIT n over that order (n = 0: no limit).
Limit(rows, n) ==
    IF n = 0 THEN rows
    ELSE {r \in rows : Cardinality({q \in rows : Before(q, r)}) < n}

iter_items(rows, fs, fg, G, unread_only, limit, pending_only) ==
    Limit({r \in rows : /\ HasFeed(fs, r.feed_url)
                        /\ (G = {} \/ InGroups(fg, r.feed_url, G))
                        /\ r.deleted = 0
                        /\ (~unread_only \/ r.read = 0)
                        /\ (~pending_only \/ r.fs_exported_ts = 0)}, limit)

\* An Export stage that runs whatever the configuration says.
ExportEnabledAlways(fl) == TRUE

\* The Export stage runs when sync_write_files is on or --write-file is given.
ExportEnabled(fl) == fl.cfg_write \/ fl.write_file

\* The Export stage of cmd_sync.
SyncExport ==
    /\ run.pc = "export"
    /\ LET fl == run.flags
           enabled == ExportEnabled(fl)
           export_all == fl.export_all \/ fl.clean
           restrict == run.sel.id # {} \/ run.sel.source # None
           rows == IF enabled
                   THEN {r \in iter_items(items, feeds, feed_groups, run.sel.group,
                                          fl.unread_only, fl.limit, ~export_all) :
                            ~restrict \/ r.feed_url \in run.feed_urls}
                   ELSE {}
       IN /\ items' = (items \ rows) \cup {[r EXCEPT !.fs_exported_ts = clock] : r \in rows}
          /\ run' = [run EXCEPT !.pc = "done", !.export_ran = enabled,
                                !.exported = Ids(rows)]
    /\ UNCHANGED <<sources, feeds, feed_groups, item_seq, tags, clock, out>>

(* ---------------------------- other commands --------------------------- *)
\* cmd_delete_id: soft-delete one item (--undo, --force).
DeleteIds == {1}
DeleteId ==
    /\ run.pc = "idle"
    /\ \E iid \in DeleteIds, undo \in BOOLEAN, force \in BOOLEAN :
        LET a == [id |-> iid, undo |-> undo, force |-> force]
            hit == {r \in items : r.id = iid}
            set(v) == (items \ hit) \cup {[r EXCEPT !.deleted = v] : r \in hit}
        IN IF undo THEN /\ items' = set(0)
                        /\ run' = Cmd("done", "delete", 0, a, {}, FALSE)
           ELSE IF ~force /\ (hit = {} \/ \E r \in hit : r.starred # 0)
           THEN /\ items' = items
                /\ run' = Cmd("done", "delete", 1, a, {}, FALSE)
           ELSE /\ items' = set(1)
                /\ run' = Cmd("done", "delete", 0, a, {}, FALSE)
    /\ UNCHANGED <<sources, feeds, feed_groups, item_seq, tags, clock, out>>

(* --------------------------- per-item commands ------------------------- *)
\* A command that has returned, with the arguments it was given.
DoneWith(cmd, rc, a) == Cmd("done", cmd, rc, a, {}, FALSE)

\* _parse_item_id_token: decimal or base36; "!" is no number in either.
ItemTokens == {"1", "9", "!"}
Parses(tok) == tok \in {"1", "9"}
IdOf(tok) == IF tok = "1" THEN 1 ELSE 9
Hit(rows, tok) == {r \in rows : Parses(tok) /\ r.id = IdOf(tok)}
SetField(rows, hit, field, v) ==
    (rows \ hit) \cup {[r EXCEPT ![field] = v] : r \in hit}

\* cmd_mark.
Mark ==
    /\ run.pc = "idle"
    /\ \E tok \in ItemTokens, state \in {"read", "unread"} :
        LET a == [id |-> tok, state |-> state]
            hit == Hit(items, tok)
        IN IF hit = {}
           THEN /\ items' = items
                /\ run' = DoneWith("mark", 1, a)
           ELSE /\ items' = SetField(items, hit, "read", IF state = "unread" THEN 0 ELSE 1)
                /\ run' = DoneWith("mark", 0, a)
    /\ out' = NoOut
    /\ UNCHANGED <<sources, feeds, feed_groups, item_seq, tags, clock>>

\* cmd_archive_id.
ArchiveId ==
    /\ run.pc = "idle"
    /\ \E tok \in ItemTokens, undo \in BOOLEAN :
        LET a == [id |-> tok, undo |-> undo]
            hit == Hit(items, tok)
        IN IF ~Parses(tok)
           THEN /\ items' = items
                /\ run' = DoneWith("archive_id", 1, a)
           ELSE IF undo
           THEN /\ items' = SetField(items, hit, "deleted", 0)
                /\ run' = DoneWith("archive_id", 0, a)
           ELSE IF hit = {} \/ \E r \in hit : r.starred # 0
           THEN /\ items' = items
                /\ run' = DoneWith("archive_id", 1, a)
           ELSE /\ items' = SetField(items, hit, "deleted", 1)
                /\ run' = DoneWith("archive_id", 0, a)
    /\ out' = NoOut
    /\ UNCHANGED <<sources, feeds, feed_groups, item_seq, tags, clock>>

\* cmd_star: cmd_star_add, or cmd_star_remove with --undo.  Tokens that do
\* not parse are dropped from the list.
StarTokens == {<< "1" >>, << "9" >>, << "!" >>, << "!", "1" >>}
Star ==
    /\ run.pc = "idle"
    /\ \E toks \in StarTokens, undo \in BOOLEAN :
        LET hit == UNION {Hit(items, toks[i]) : i \in 1..Len(toks)}
        IN /\ items' = SetField(items, hit, "starred", IF undo THEN 0 ELSE 1)
           /\ run' = DoneWith("star", 0, [ids |-> toks, undo |-> undo])
    /\ out' = NoOut
    /\ UNCHANGED <<sources, feeds, feed_groups, item_seq, tags, clock>>

(* ----------------------------- bulk commands ---------------------------- *)
\* The arguments of "archive date" the model draws: --since and --until as
\* instants (0: not given), --group, --undo, and a --force, which the parser
\* of "archive date" does not know.
\* --source (a URL or a numeric string; None: not given) and --source-id
\* (0: not given) of list, archive date and purge.
SourceFilters ==
    { [source |-> "u2", source_id |-> 0],
      [source |-> "1", source_id |-> 0],
      [source |-> None, source_id |-> 1],
      [source |-> None, source_id |-> 9] }
BySource(a, sf) == [a EXCEPT !.source = sf.source, !.source_id = sf.source_id]
Unrestricted(a) == a.source = None /\ a.source_id = 0

\* _build_source_filter: the URL items.feed_url is compared with, or None when
\* it returns no filter.
_build_source_filter(fs, src, src_id) ==
    IF src_id # 0
    THEN IF \E f \in fs : f.rowid = src_id
         THEN (CHOOSE f \in fs : f.rowid = src_id).url
         ELSE None
    ELSE IF ~Truthy(src) THEN None
    ELSE IF IsInt(src) /\ \E f \in fs : f.rowid = ToInt(src)
    THEN (CHOOSE f \in fs : f.rowid = ToInt(src)).url
    ELSE src
FromSource(fs, r, a) ==
    LET u == _build_source_filter(fs, a.source, a.source_id)
    IN u = None \/ r.feed_url = u

DateArgs(since, until, G, undo, force) ==
    [since |-> since, until |-> until, group |-> G, undo |-> undo, force |-> force,
     source |-> None, source_id |-> 0]
ArchiveDateArgs ==
    { DateArgs(0, 0, {}, FALSE, FALSE),
      DateArgs(1, 0, {}, FALSE, FALSE),
      DateArgs(1, 0, {}, TRUE, FALSE),
      DateArgs(0, 2, {"g2"}, FALSE, FALSE),
      DateArgs(1, 0, {}, FALSE, TRUE) }
    \cup {BySource(DateArgs(1, 0, {}, FALSE, FALSE), sf) : sf \in SourceFilters}
InRange(r, a) ==
    /\ (a.since = 0 \/ r.published_ts >= a.since)
    /\ (a.until = 0 \/ r.published_ts < a.until)
    /\ (a.group = {} \/ InGroups(feed_groups, r.feed_url, a.group))
    /\ FromSource(feeds, r, a)

\* A bulk archive that takes starred items too.
ArchivableAll(r) == TRUE

\* The starred protection of the bulk UPDATEs (AND starred = 0).
Archivable(r) == r.starred = 0

\* cmd_archive_date; an argument the parser does not know ends the command
\* with status 2 before cmd_archive_date is called.
ArchiveDate ==
    /\ run.pc = "idle"
    /\ \E a \in ArchiveDateArgs :
        LET hit == {r \in items : InRange(r, a)}
        IN IF a.force
           THEN /\ items' = items
                /\ run' = DoneWith("archive_date", 2, a)
           ELSE IF a.since = 0 /\ a.until = 0
           THEN /\ items' = items
                /\ run' = DoneWith("archive_date", 1, a)
           ELSE IF a.undo
           THEN /\ items' = SetField(items, hit, "deleted", 0)
                /\ run' = DoneWith("archive_date", 0, a)
           ELSE /\ items' = SetField(items, {r \in hit : Archivable(r)}, "deleted", 1)
                /\ run' = DoneWith("archive_date", 0, a)
    /\ out' = NoOut
    /\ UNCHANGED <<sources, feeds, feed_groups, item_seq, tags, clock>>

\* --url or --id of the commands on one source (id 0: not given), and the
\* URL they resolve to.
SourceArg(url, id) == [url |-> url, id |-> id]
SourceArgs == {SourceArg(None, 1), SourceArg("u2", 0), SourceArg(None, 9)}
ResolveUrl(fs, a) ==
    IF Truthy(a.url) THEN a.url
    ELSE IF \E f \in fs : f.rowid = a.id THEN (CHOOSE f \in fs : f.rowid = a.id).url
    ELSE None
SetArchived(fs, urls, v) ==
    {IF f.url \in urls THEN [f EXCEPT !.archived = v] ELSE f : f \in fs}

\* cmd_delete_source.
DeleteSource ==
    /\ run.pc = "idle"
    /\ \E src \in SourceArgs, undo \in BOOLEAN, force \in BOOLEAN :
        LET a == [src |-> src, undo |-> undo, force |-> force]
            url == ResolveUrl(feeds, src)
            hit == {r \in items : r.feed_url = url}
        IN IF url = None
           THEN /\ items' = items
                /\ run' = DoneWith("delete_source", 1, a)
           ELSE IF undo
           THEN /\ items' = SetField(items, hit, "deleted", 0)
                /\ run' = DoneWith("delete_source", 0, a)
           ELSE /\ items' = SetField(items, {r \in hit : force \/ Archivable(r)},
                                     "deleted", 1)
                /\ run' = DoneWith("delete_source", 0, a)
    /\ out' = NoOut
    /\ UNCHANGED <<sources, feeds, feed_groups, item_seq, tags, clock>>

\* cmd_archive_source.
ArchiveSource ==
    /\ run.pc = "idle"
    /\ \E src \in SourceArgs, undo \in BOOLEAN, delete_items \in BOOLEAN :
        LET a == [src |-> src, undo |-> undo, delete_items |-> delete_items]
            url == ResolveUrl(feeds, src)
            hit == {r \in items : r.feed_url = url}
        IN IF url = None
           THEN /\ UNCHANGED <<feeds, items>>
                /\ run' = DoneWith("archive_source", 1, a)
           ELSE /\ feeds' = SetArchived(feeds, {url}, IF undo THEN 0 ELSE 1)
                /\ items' = IF ~undo /\ delete_items
                             THEN SetField(items, {r \in hit : Archivable(r)}, "deleted", 1)
                             ELSE items
                /\ run' = DoneWith("archive_source", 0, a)
    /\ out' = NoOut
    /\ UNCHANGED <<sources, feed_groups, item_seq, tags, clock>>

\* cmd_archive_group.
GroupNames == {"g1", "g3"}
ArchiveGroup ==
    /\ run.pc = "idle"
    /\ \E name \in GroupNames, undo \in BOOLEAN, delete_items \in BOOLEAN :
        LET a == [name |-> name, undo |-> undo, delete_items |-> delete_items]
            urls == {m[1] : m \in {n \in feed_groups : n[2] = name}}
            hit == {r \in items : r.feed_url \in urls}
        IN /\ feeds' = SetArchived(feeds, urls, IF undo THEN 0 ELSE 1)
           /\ items' = IF ~undo /\ delete_items
                        THEN SetField(items, {r \in hit : Archivable(r)}, "deleted", 1)
                        ELSE items
           /\ run' = DoneWith("archive_group", 0, a)
    /\ out' = NoOut
    /\ UNCHANGED <<sources, feed_groups, item_seq, tags, clock>>

\* The arguments of purge the model draws: --deleted, --before as an instant
\* (0: not given), --group, --clean-tags, --dry-run.
PurgeArgsOf(deleted, before, G, clean_tags, dry_run) ==
    [deleted |-> deleted, before |-> before, group |-> G, clean_tags |-> clean_tags,
     dry_run |-> dry_run, source |-> None, source_id |-> 0]
PurgeArgs ==
    { PurgeArgsOf(FALSE, 0, {}, FALSE, FALSE),
      PurgeArgsOf(TRUE, 0, {}, TRUE, FALSE),
      PurgeArgsOf(TRUE, 0, {"g2"}, FALSE, FALSE),
      PurgeArgsOf(FALSE, 2, {}, FALSE, FALSE),
      PurgeArgsOf(TRUE, 3, {}, FALSE, FALSE),
      PurgeArgsOf(TRUE, 2, {}, FALSE, TRUE) }
    \cup {BySource(PurgeArgsOf(TRUE, 0, {}, FALSE, FALSE), sf) : sf \in SourceFilters}

\* A purge of old items that takes the starred ones too.
StaleAny(r, cutoff) ==
    r.read = 1 /\ r.deleted = 0 /\ r.published_ts < cutoff

\* The rows the second DELETE of cmd_purge removes.
Stale(r, cutoff) ==
    r.read = 1 /\ r.starred = 0 /\ r.deleted = 0 /\ r.published_ts < cutoff

\* cmd_purge.
Purge ==
    /\ run.pc = "idle"
    /\ \E a \in PurgeArgs :
        LET scoped(r) == /\ a.group = {} \/ InGroups(feed_groups, r.feed_url, a.group)
                         /\ FromSource(feeds, r, a)
            gone1 == IF a.deleted /\ ~a.dry_run
                     THEN {r \in items : r.deleted = 1 /\ scoped(r)} ELSE {}
            left1 == items \ gone1
            gone2 == IF a.before # 0 /\ ~a.dry_run
                     THEN {r \in left1 : Stale(r, a.before) /\ scoped(r)} ELSE {}
            left2 == left1 \ gone2
        IN /\ items' = left2
           /\ tags' = IF a.clean_tags /\ ~a.dry_run
                       THEN {t \in tags : \E r \in left2 : t \in r.tags} ELSE tags
           /\ run' = DoneWith("purge", 0, a)
    /\ out' = NoOut
    /\ UNCHANGED <<sources, feeds, feed_groups, item_seq, clock>>

\* cmd_source_rm --id: with --yes the feed row is deleted, and with it (ON
\* DELETE CASCADE) its group memberships and its items.
SourceRmIds == {1, 9}
SourceRm ==
    /\ run.pc = "idle"
    /\ \E id \in SourceRmIds, yes \in BOOLEAN :
        LET a == [id |-> id, yes |-> yes]
            hit == {f \in feeds : f.rowid = id}
            urls == {f.url : f \in hit}
        IN IF hit = {}
           THEN /\ UNCHANGED <<feeds, feed_groups, items>>
                /\ run' = DoneWith("source_rm", 1, a)
           ELSE IF ~yes
           THEN /\ UNCHANGED <<feeds, feed_groups, items>>
                /\ run' = DoneWith("source_rm", 0, a)
           ELSE /\ feeds' = feeds \ hit
                /\ feed_groups' = {m \in feed_groups : m[1] \notin urls}
                /\ items' = {r \in items : r.feed_url \notin urls}
                /\ run' = DoneWith("source_rm", 0, a)
    /\ out' = NoOut
    /\ UNCHANGED <<sources, item_seq, tags, clock>>

(* --------------------------------- list -------------------------------- *)
\* The arguments of cmd_list the model draws: --group (the labels it parses
\* to), --tier, --tags (the list it parses to), --limit (0: not given),
\* the sort flag, --group-by and --tags-top (0: not given).
Query(G, T, tag_list, lim, sort, group_by, top) ==
    [group |-> G, tier |-> T, tags |-> tag_list, limit |-> lim, sort |-> sort,
     group_by |-> group_by, tags_top |-> top, source |-> None, source_id |-> 0]
ListQueries ==
    { Query({}, {}, << >>, 0, "date_new", "none", 0),
      Query({}, {}, << "rust" >>, 0, "date_new", "none", 0),
      Query({}, {}, << "rust", "news" >>, 0, "date_new", "none", 0),
      Query({}, {}, << "rust", "rust" >>, 0, "date_new", "none", 0),
      Query({}, {}, << "rust", "zebra" >>, 0, "id_rev", "none", 0),
      Query({"g1"}, {}, << >>, 0, "date_new", "none", 0),
      Query({"g2"}, {}, << >>, 0, "id_rev", "none", 0),
      Query({"g1", "g2"}, {}, << >>, 0, "date_new", "none", 0),
      Query({"g2", "g3"}, {}, << "rust" >>, 0, "date_new", "none", 0),
      Query({"g1", "g2"}, {}, << >>, 1, "date_new", "none", 0),
      Query({}, {1}, << >>, 0, "date_new", "group", 0),
      Query({}, {}, << >>, 0, "id_rev", "group", 0),
      Query({}, {}, << >>, 0, "date_new", "tier", 0),
      Query({}, {}, << >>, 0, "id_rev", "date", 0),
      Query({}, {}, << >>, 0, "date_new", "source", 0),
      Query({}, {}, << >>, 0, "date_new", "tag", 0),
      Query({"g1"}, {}, << >>, 0, "id_rev", "tag", 0),
      Query({}, {}, << >>, 0, "date_new", "tag", 1) }
    \cup {BySource(Query({}, {}, << >>, 0, "date_new", "none", 0), sf) : sf \in SourceFilters}

\* list_max of the configuration, the cap when --limit is not given.
DefaultListMax == 2000

FeedOf(fs, u) == CHOOSE f \in fs : f.url = u

\* The WHERE clause of the item query of cmd_list.
ListMatches(r, fs, fg, q) ==
    /\ HasFeed(fs, r.feed_url)
    /\ r.deleted = 0
    /\ (q.group = {} \/ InGroups(fg, r.feed_url, q.group))
    /\ (q.tier = {} \/ FeedOf(fs, r.feed_url).tier \in q.tier)
    /\ FromSource(fs, r, q)
    /\ (Len(q.tags) = 0
         \/ Cardinality(r.tags \cap SeqToSet(q.tags)) = Len(q.tags))

\* ORDER BY of cmd_list: items.id ASC for --sort-id-rev, else the date field
\* descending, then id descending.
ListBefore(a, b, sort) == IF sort = "id_rev" THEN a.id < b.id ELSE Before(a, b)

RECURSIVE SortRows(_, _)
SortRows(rows, sort) ==
    IF rows = {} THEN << >>
    ELSE LET first == CHOOSE r \in rows : \A o \in rows \ {r} : ListBefore(r, o, sort)
         IN << first >> \o SortRows(rows \ {first}, sort)

Head_n(sq, n) == SubSeq(sq, 1, IF Len(sq) < n THEN Len(sq) ELSE n)

\* The rows the query of cmd_list returns, in order.
ListRows(rows, fs, fg, q) ==
    Head_n(SortRows({r \in rows : ListMatches(r, fs, fg, q)}, q.sort),
           IF q.limit # 0 THEN q.limit ELSE DefaultListMax)

\* mk_bucket for --date-bucket day: two consecutive instants of the model's
\* clock fall on one day; a row without a timestamp goes to "----" (0).
mk_bucket(ts) == IF ts = 0 THEN 0 ELSE (ts \div 2) + 1

\* The labels of the buckets a row is appended to under --group-by.
LabelsOf(r, fs, group_by) ==
    IF group_by = "group" THEN {PyOr(FeedOf(fs, r.feed_url).grp, "ungrouped")}
    ELSE IF group_by = "tier" THEN {FeedOf(fs, r.feed_url).tier}
    ELSE IF group_by = "date" THEN {mk_bucket(r.published_ts)}
    ELSE IF group_by = "source" THEN {r.feed_url}
    ELSE IF group_by = "tag" THEN (IF r.tags = {} THEN {"(none)"} ELSE r.tags)
    ELSE {None}

\* A grouping that puts each new row at the front of its bucket.
BucketReversed(rows, fs, group_by, label) ==
    [label |-> label,
     ids |-> LET hit == SelectSeq(rows, LAMBDA r : label \in LabelsOf(r, fs, group_by))
             IN [i \in 1..Len(hit) |-> hit[Len(hit) + 1 - i].id]]

\* group_map: each label with the rows appended to it, in the order of rows.
Bucket(rows, fs, group_by, label) ==
    [label |-> label,
     ids |-> LET hit == SelectSeq(rows, LAMBDA r : label \in LabelsOf(r, fs, group_by))
             IN [i \in 1..Len(hit) |-> hit[i].id]]

\* The order the buckets are printed in: group and source labels by name,
\* tiers ascending, days descending, tags by count descending then name.
GroupLabels == << "(none)", "g1", "g2", "g3", "u1", "u2", "ungrouped" >>
LabelKey(b, group_by) ==
    IF group_by = "tier" THEN << b.label, 0 >>
    ELSE IF group_by = "date" THEN << 0 - b.label, 0 >>
    ELSE IF group_by = "tag"
         THEN << 0 - Len(b.ids), IF b.label = "(none)" THEN 0 ELSE Alpha(b.label) >>
    ELSE IF group_by \in {"group", "source"}
         THEN << CHOOSE i \in 1..Len(GroupLabels) : GroupLabels[i] = b.label, 0 >>
    ELSE << 0, 0 >>
KeyBefore(k, l) == k[1] < l[1] \/ (k[1] = l[1] /\ k[2] < l[2])

RECURSIVE SortBuckets(_, _)
SortBuckets(bs, group_by) ==
    IF bs = {} THEN << >>
    ELSE LET first == CHOOSE b \in bs : \A o \in bs \ {b} :
                          KeyBefore(LabelKey(b, group_by), LabelKey(o, group_by))
         IN << first >> \o SortBuckets(bs \ {first}, group_by)

\* What cmd_list prints for rows: the buckets in order (one bucket without a
\* label when no grouping is asked for); --tags-top cuts the tag buckets.
Shown(rows, fs, q) ==
    LET labels == UNION {LabelsOf(rows[i], fs, q.group_by) : i \in 1..Len(rows)}
        bs == SortBuckets({Bucket(rows, fs, q.group_by, l) : l \in labels}, q.group_by)
    IN IF q.group_by = "tag" /\ q.tags_top # 0 THEN Head_n(bs, q.tags_top) ELSE bs

\* cmd_list.
List ==
    /\ run.pc = "idle"
    /\ \E q \in ListQueries :
        LET rows == ListRows(items, feeds, feed_groups, q)
        IN out' = [cmd |-> "list", q |-> q,
                   rows |-> [i \in 1..Len(rows) |-> rows[i].id],
                   shown |-> Shown(rows, feeds, q)]
    /\ run' = Done("list", 0)
    /\ UNCHANGED <<sources, feeds, feed_groups, items, item_seq, tags, clock>>

(* --------------------------- extract_auto_tags ------------------------- *)
\* extract_auto_tags as a function of its inputs: a title, a body text and
\* max_tags, as "tags auto --dry-run" prints it for an item.
Texts == {None, "", "t1", "t2", "t3"}
MaxTagsValues == {0, 1, 2, 5}
TagQuery(title, body, n, res, pc) ==
    [cmd |-> "tags", pc |-> pc, title |-> title, body |-> body, max_tags |-> n,
     result |-> res]

InitExtract ==
    /\ sources \in SourceFiles
    /\ feeds = {} /\ feed_groups = {} /\ items = {} /\ item_seq = 0
    /\ tags = {} /\ clock = 0
    /\ run = Idle("none")
    /\ \E title \in Texts, body \in Texts, n \in MaxTagsValues :
          out = TagQuery(title, body, n, << >>, "call")

Extract ==
    /\ out.cmd = "tags" /\ out.pc = "call"
    /\ out' = [out EXCEPT !.pc = "return",
                          !.result = extract_auto_tags(out.title, out.body, out.max_tags)]
    /\ UNCHANGED <<sources, feeds, feed_groups, items, item_seq, tags, clock, run>>

NextExtract == Extract

SpecExtract == InitExtract /\ [][NextExtract]_vars

\* Listing a store that sync runs without a selector have filled.
ListSyncFlags ==
    { DefaultFlags,
      Flags(FALSE, TRUE, FALSE, TRUE, FALSE, FALSE, FALSE, FALSE, 0),
      MaxTags(Flags(TRUE, TRUE, TRUE, TRUE, FALSE, FALSE, FALSE, FALSE, 0), 1) }
NextList ==
    \/ (SyncStart /\ run'.sel = DefaultSel)
    \/ SyncFeed \/ FeedSkip
    \/ (SyncTag /\ run'.flags \in ListSyncFlags)
    \/ SyncExport \/ DeleteId \/ (List /\ Unrestricted(out'.q)) \/ Return

SpecList == Init /\ [][NextList]_vars

\* Commands on the items of a store that default sync runs have filled.
NextItems ==
    \/ (SyncStart /\ run'.sel = DefaultSel)
    \/ SyncFeed
    \/ (SyncTag /\ run'.flags = DefaultFlags)
    \/ SyncExport
    \/ Mark \/ ArchiveId \/ DeleteId \/ Star
    \/ (ArchiveDate /\ Unrestricted(run'.sel))
    \/ (Purge /\ Unrestricted(run'.sel))
    \/ SourceRm
    \/ Return

SpecItems == Init /\ [][NextItems]_vars

\* Fetch runs.
Next ==
    \/ FetchStart \/ FetchFeed \/ FeedSkip \/ FeedRaise \/ FetchDone
    \/ Return

Spec == Init /\ [][Next]_vars

\* Sync runs.
NextSync ==
    \/ (SyncStart /\ run'.sel.tier = {}) \/ SyncFeed \/ FeedSkip \/ FeedRaise \/ SyncTag \/ SyncExport
    \/ DeleteId
    \/ Return

SpecSync == Init /\ [][NextSync]_vars

\* Deleting, archiving and starring in a store that default sync runs have
\* filled.
NextProtect ==
    \/ (SyncStart /\ run'.sel = DefaultSel)
    \/ SyncFeed
    \/ (SyncTag /\ run'.flags = DefaultFlags)
    \/ SyncExport
    \/ Star \/ ArchiveId \/ DeleteId \/ DeleteSource
    \/ ArchiveSource \/ ArchiveGroup \/ (ArchiveDate /\ Unrestricted(run'.sel))
    \/ Return

SpecProtect == Init /\ [][NextProtect]_vars

\* The same commands, never given a force flag.
NextNoForce ==
    \/ (SyncStart /\ run'.sel = DefaultSel)
    \/ SyncFeed
    \/ (SyncTag /\ run'.flags = DefaultFlags)
    \/ SyncExport
    \/ Star \/ ArchiveId
    \/ (DeleteId /\ ~run'.sel.force) \/ (DeleteSource /\ ~run'.sel.force)
    \/ ArchiveSource \/ ArchiveGroup
    \/ (ArchiveDate /\ ~run'.sel.force /\ Unrestricted(run'.sel))
    \/ Return

SpecNoForce == Init /\ [][NextNoForce]_vars

\* Fetch and sync runs without a selector, with the default flags.
NextIngest ==
    \/ (FetchStart /\ run'.sel = DefaultSel) \/ FetchFeed \/ FetchDone
    \/ (SyncStart /\ run'.sel = DefaultSel) \/ SyncFeed
    \/ (SyncTag /\ run'.flags = DefaultFlags) \/ SyncExport
    \/ FeedSkip
    \/ Return

SpecIngest == Init /\ [][NextIngest]_vars

\* Every stored item has a dedup key.
Keyed(rows) == \A r \in rows : r.uid # None

\* Fetch and sync runs under every selector, with sources and groups archived
\* and restored in between; every document fetched brings one new entry, with
\* a dedup key.
NextArchive ==
    \/ FetchStart \/ (FetchFeed /\ item_seq' = item_seq + 1 /\ Keyed(items')) \/ FetchDone
    \/ SyncStart \/ (SyncFeed /\ item_seq' = item_seq + 1 /\ Keyed(items'))
    \/ (SyncTag /\ run'.flags = DefaultFlags) \/ SyncExport
    \/ (ArchiveSource /\ ~run'.sel.delete_items)
    \/ (ArchiveGroup /\ ~run'.sel.delete_items /\ ~run'.sel.undo)
    \/ Return
SpecArchive == Init /\ [][NextArchive]_vars

\* Default fetch and sync runs over entries with a dedup key, with items marked
\* read, starred and deleted in between.
NextKeep ==
    \/ (FetchStart /\ run'.sel = DefaultSel) \/ (FetchFeed /\ Keyed(items')) \/ FetchDone
    \/ (SyncStart /\ run'.sel = DefaultSel) \/ (SyncFeed /\ Keyed(items'))
    \/ (SyncTag /\ run'.flags = DefaultFlags) \/ SyncExport
    \/ Mark \/ Star \/ (DeleteId /\ ~run'.sel.force)
    \/ Return
SpecKeep == Init /\ [][NextKeep]_vars

\* Default sync runs, with items deleted by id, and list, archive date and
\* purge restricted to one source.
NextSource ==
    \/ (SyncStart /\ run'.sel = DefaultSel)
    \/ SyncFeed
    \/ (SyncTag /\ run'.flags = DefaultFlags)
    \/ SyncExport
    \/ (DeleteId /\ ~run'.sel.force)
    \/ (List /\ ~Unrestricted(out'.q))
    \/ (ArchiveDate /\ ~Unrestricted(run'.sel))
    \/ (Purge /\ ~Unrestricted(run'.sel))
    \/ Return
SpecSource == Init /\ [][NextSource]_vars

\* Default fetch runs, with items deleted by id and purged in between.
NextPurge ==
    \/ (FetchStart /\ run'.sel = DefaultSel) \/ FetchFeed \/ FetchDone
    \/ FeedSkip
    \/ (DeleteId /\ ~run'.sel.force)
    \/ (Purge /\ Unrestricted(run'.sel))
    \/ Return
SpecPurge == Init /\ [][NextPurge]_vars

\* Fetch and sync runs with a --tier selector.
NextTier ==
    \/ (FetchStart /\ (run'.sel.tier # {} \/ run'.rc # 0))
    \/ FetchFeed \/ FetchDone
    \/ (SyncStart /\ run'.sel.tier # {})
    \/ SyncFeed \/ SyncTag \/ SyncExport
    \/ FeedSkip \/ FeedRaise
    \/ Return

SpecTier == Init /\ [][NextTier]_vars

\* Fetch and sync runs interleaved.
NextAll ==
    \/ FetchStart \/ FetchFeed \/ FetchDone
    \/ (SyncStart /\ run'.sel.tier = {}) \/ SyncFeed \/ SyncTag \/ SyncExport
    \/ FeedSkip \/ FeedRaise
    \/ DeleteId
    \/ Return

SpecAll == Init /\ [][NextAll]_vars

(* -------------------------------- claims ------------------------------- *)
\* The rows a run inserted (the clock ticks once per run).
InsertedNow(rows) == {r \in rows : r.created_ts = clock}
RunInProgress == run.pc \in {"fetch", "export"}
InScope(r) == run.sel.group = {} \/ InGroups(feed_groups, r.feed_url, run.sel.group)

\* C1: idempotent ingestion.  When a feed is ingested and every entry of the
\* payload is already in the store (a row of the feed repeats its guid, title
\* and link, as after ingesting the same payload just before), the run inserts
\* no row for that feed.
C1_IdempotentIngestion ==
    \A u \in Urls :
        run.outcome[u] = "ok" /\ run.unseen[u] = 0 => run.new[u] = 0

\* C2: re-fetching never duplicates an entry whose GUID changed while its title
\* and link did not: a feed never holds two rows with the same non-empty title
\* and the same non-empty link.
C2_OneRowPerTitleAndLink ==
    \A r, q \in items :
        /\ r.feed_url = q.feed_url
        /\ Truthy(r.title) /\ r.title = q.title
        /\ Truthy(r.link) /\ r.link = q.link
        => r.id = q.id

C4_DuplicateUrlsAbort ==
    DupUrls(sources) # {} =>
        /\ ~RunInProgress
        /\ feeds = {} /\ items = {}
        /\ (run.pc = "done" => run.rc = 1)

\* C5: a failure while fetching one feed skips that feed only: a run that has
\* ended did not die, and went through every feed it selected.
C5_FetchFailureSkipsOneFeed ==
    run.pc = "done" =>
        /\ ~run.crashed
        /\ \A u \in run.feed_urls : run.outcome[u] \in {"ok", "skip"}

\* C6: watermark gating.  A default sync run that directly follows a completed
\* default sync run and meets no content the store has not seen inserts no
\* item, tags no item and exports no item.
C6_WatermarkGating ==
    /\ DefaultSyncDone(run) /\ run.after_default
    /\ \A u \in Urls : run.outcome[u] = "ok" => run.unseen[u] = 0
    => run.total_new = 0 /\ run.tagged = {} /\ run.exported = {}

\* C7: force flags ignore the watermarks.  After the Tag stage of a sync run
\* with --retag-all, every non-deleted item in the group scope of the run was
\* tagged in this run, whatever its tag watermark was; after the Export stage
\* of a sync run with --export-all (or --clean), the exported items are the
\* non-deleted items in the group scope of the run (the first --limit of them
\* when a limit is given) that belong to the feeds of an explicit --id or
\* --source, whatever their export watermark was, and each is stamped by this
\* run.
C7_ForceIgnoresWatermarks ==
    /\ run.cmd = "sync" /\ run.pc \in {"export", "done"} /\ ~run.crashed =>
        (run.tag_ran /\ run.flags.retag_all =>
            run.tagged = Ids({r \in items : r.deleted = 0 /\ InScope(r)}))
    /\ run.cmd = "sync" /\ run.pc = "export" /\ run.tag_ran /\ run.flags.retag_all =>
        \A r \in items : r.id \in run.tagged => r.auto_tagged_ts = clock
    /\ run.cmd = "sync" /\ run.pc = "done" /\ run.export_ran
       /\ (run.flags.export_all \/ run.flags.clean) =>
        LET restrict == run.sel.id # {} \/ run.sel.source # None
            scope == {r \in items : r.deleted = 0 /\ InScope(r)}
            matching == {r \in Limit(scope, run.flags.limit) :
                            restrict => r.feed_url \in run.feed_urls}
        IN /\ run.exported = Ids(matching)
           /\ \A r \in items : r.id \in run.exported => r.fs_exported_ts = clock

\* C7 witness: a sync run with --retag-all and --export-all directly follows a
\* completed default sync run (which tagged and exported every non-deleted
\* item) and tags and exports an item of that earlier run again.
C7_Witness ==
    /\ run.cmd = "sync" /\ run.pc = "done" /\ run.after_default
    /\ run.tag_ran /\ run.flags.retag_all
    /\ run.export_ran /\ run.flags.export_all
    /\ \E r \in items : /\ r.created_ts < clock /\ r.deleted = 0
                        /\ r.id \in run.tagged /\ r.id \in run.exported

TagStep ==
    \E r \in items : \E q \in items' :
        q.id = r.id /\ (q.auto_tagged_ts # r.auto_tagged_ts \/ q.tags # r.tags)
ExportStep ==
    \E r \in items : \E q \in items' :
        q.id = r.id /\ q.fs_exported_ts # r.fs_exported_ts
C9_StagesSequential ==
    [][ /\ TagStep =>
            /\ run.cmd = "sync" /\ run.pc = "fetch" /\ run'.pc = "export"
            /\ \A u \in run.feed_urls : run.outcome[u] \in {"ok", "skip"}
            /\ ~ExportStep /\ item_seq' = item_seq
        /\ ExportStep =>
            /\ run.cmd = "sync" /\ run.pc = "export" /\ run'.pc = "done"
            /\ item_seq' = item_seq
        /\ item_seq' # item_seq => run.pc = "fetch" /\ run'.pc = "fetch" ]_vars

\* C9 witness: a sync run over two feeds, one fetched and one skipped or
\* fetched, has tagged and then exported an item it inserted.
C9_Witness ==
    /\ run.cmd = "sync" /\ run.pc = "done" /\ ~run.crashed
    /\ Cardinality(run.feed_urls) = 2
    /\ \E r \in InsertedNow(items) : r.auto_tagged_ts = clock /\ r.fs_exported_ts = clock

\* C10: the Tag stage is scoped to the selection of the Fetch stage: a sync run
\* tags only items of feeds it selected for fetching.
C10_TagScopedToSelection ==
    run.cmd = "sync" /\ run.pc \in {"export", "done"} =>
        \A r \in items : r.id \in run.tagged => r.feed_url \in run.feed_urls

\* C11: the Export stage can be disabled.  A sync run that ends with
\* sync_write_files off and without --write-file went through the feed loop
\* and the Tag stage (tagging as its flags say), exported nothing and left
\* every export watermark as it was; with --write-file and sync_write_files
\* off the Export stage ran, and (no --limit) no non-deleted item in the
\* scope of the run is left without an export watermark.
C11_ExportDisabled ==
    run.cmd = "sync" /\ run.pc = "done" /\ ~run.crashed /\ ~run.flags.cfg_write =>
        /\ ~run.flags.write_file =>
            /\ \A u \in run.feed_urls : run.outcome[u] \in {"ok", "skip"}
            /\ run.tag_ran = (run.flags.auto_tags /\ run.flags.cfg_auto)
            /\ ~run.export_ran /\ run.exported = {}
            /\ \A r \in items : r.fs_exported_ts # clock
        /\ run.flags.write_file =>
            /\ run.export_ran
            /\ run.flags.limit = 0 =>
                \A r \in items :
                    /\ r.deleted = 0 /\ InScope(r)
                    /\ (run.sel.id # {} => r.feed_url \in run.feed_urls)
                    => r.fs_exported_ts # 0

\* C11 witness: a sync run with the Export stage disabled inserted and tagged
\* an item and left it without an export watermark.
C11_Witness ==
    /\ run.cmd = "sync" /\ run.pc = "done" /\ ~run.crashed
    /\ ~run.flags.cfg_write /\ ~run.flags.write_file
    /\ \E r \in InsertedNow(items) :
          r.id \in run.tagged /\ r.auto_tagged_ts = clock /\ r.fs_exported_ts = 0

\* C12: tag application is a full replace.  After the Tag stage has processed
\* an item, the tags of the item are exactly the tags extracted in this run
\* from its title with the --max-tags of this run, whatever tags it carried
\* before: the result depends on the item and the parameters only, so the
\* same parameters on an untouched item give the same tag set again.
C12_TagsReplaced ==
    [][ run.pc = "fetch" /\ run'.pc = "export" =>
          \A q \in items' :
              q.id \in run'.tagged =>
                  q.tags = SeqToSet(extract_auto_tags(q.title, "", run'.flags.max_tags)) ]_vars

\* C12 witness: right after a completed default sync run (which left the tags
\* rust and news on the item), a run with --retag-all --max-tags 1 has tagged
\* the item again and only rust is left.
C12_Witness ==
    /\ run.cmd = "sync" /\ run.pc = "export" /\ run.after_default
    /\ run.flags.retag_all /\ run.flags.max_tags = 1
    /\ \E r \in items : /\ r.created_ts < clock /\ r.deleted = 0 /\ r.title = "t1"
                        /\ r.id \in run.tagged /\ r.tags = {"rust"}

\* C13: extract_auto_tags returns at most max_tags tags, none shorter than 3
\* characters, none a stopword, none a pure-digit token; the weight of a token
\* is its occurrences in the body plus twice its occurrences in the title, and
\* the result is the first max_tags surviving tokens by weight descending,
\* then token ascending.
Survives(w) == Len(w) >= MinLen /\ w \notin Stopwords /\ ~IsDigit(w)
Weight(w, title, body) ==
    Occurrences(_tokenize(PyOr(body, "")), w)
    + 2 * Occurrences(_tokenize(PyOr(title, "")), w)
Candidates(title, body) ==
    {w \in SeqToSet(_tokenize(PyOr(body, ""))) \cup SeqToSet(_tokenize(PyOr(title, ""))) :
        Survives(w)}
RanksBefore(v, w, title, body) ==
    \/ Weight(v, title, body) > Weight(w, title, body)
    \/ (Weight(v, title, body) = Weight(w, title, body) /\ Alpha(v) < Alpha(w))
C13_ExtractAutoTags ==
    out.cmd = "tags" /\ out.pc = "return" =>
        LET res == out.result
            cands == Candidates(out.title, out.body)
        IN /\ Len(res) <= out.max_tags
           /\ \A i \in 1..Len(res) : Survives(res[i])
           /\ \A i, j \in 1..Len(res) :
                 i < j => RanksBefore(res[i], res[j], out.title, out.body)
           /\ \A w \in cands \ SeqToSet(res) :
                 /\ Len(res) = out.max_tags
                 /\ \A i \in 1..Len(res) : RanksBefore(res[i], w, out.title, out.body)

\* The same without the promise about pure-digit tokens.
C13_ExceptDigits ==
    out.cmd = "tags" /\ out.pc = "return" =>
        LET res == out.result
        IN /\ Len(res) <= out.max_tags
           /\ \A i \in 1..Len(res) : Len(res[i]) >= MinLen /\ res[i] \notin Stopwords
           /\ \A i, j \in 1..Len(res) :
                 i < j => RanksBefore(res[i], res[j], out.title, out.body)

\* What a list command printed, and the rows of the store it ran on.
Listed == out.cmd = "list"
ReturnedIds == SeqToSet(out.rows)
Uncapped == out.q.limit = 0 /\ Cardinality(items) < DefaultListMax
FeedIn(r, G) == \E g \in G : <<r.feed_url, g>> \in feed_groups
FeedTier(r) == \E f \in feeds : f.url = r.feed_url /\ f.tier \in out.q.tier

\* C14: the tag filter is AND-combined: for any list of requested tags a
\* non-deleted item is returned if and only if it carries every listed tag
\* (and passes the other predicates); the result is empty when no item
\* carries them all.
C14_TagFilterAnd ==
    Listed /\ Len(out.q.tags) > 0 /\ Uncapped =>
        \A r \in items :
            r.id \in ReturnedIds <=>
                /\ r.deleted = 0
                /\ SeqToSet(out.q.tags) \subseteq r.tags
                /\ (out.q.group = {} \/ FeedIn(r, out.q.group))
                /\ (out.q.tier = {} \/ FeedTier(r))

\* The same for lists that name no tag twice.
C14_DistinctTags ==
    Listed /\ Len(out.q.tags) > 0 /\ Uncapped
    /\ Cardinality(SeqToSet(out.q.tags)) = Len(out.q.tags) =>
        \A r \in items :
            r.id \in ReturnedIds <=>
                /\ r.deleted = 0
                /\ SeqToSet(out.q.tags) \subseteq r.tags
                /\ (out.q.group = {} \/ FeedIn(r, out.q.group))
                /\ (out.q.tier = {} \/ FeedTier(r))

\* C15: the group filter is OR-combined: every returned item's feed belongs
\* to at least one requested group, and every non-deleted item whose feed
\* belongs to a requested group and that passes the other predicates is
\* returned, up to the cap.
OtherPredicates(r) == ListMatches(r, feeds, feed_groups, [out.q EXCEPT !.group = {}])
C15_GroupFilterOr ==
    Listed /\ out.q.group # {} =>
        LET wanted == {r \in items : /\ r.deleted = 0 /\ FeedIn(r, out.q.group)
                                     /\ OtherPredicates(r)}
            cap == IF out.q.limit # 0 THEN out.q.limit ELSE DefaultListMax
        IN /\ ReturnedIds \subseteq Ids(wanted)
           /\ Len(out.rows) = Cardinality(ReturnedIds)
           /\ Len(out.rows) = (IF Cardinality(wanted) < cap THEN Cardinality(wanted)
                               ELSE cap)
C15_Witness ==
    /\ Listed /\ out.q.group = {"g1", "g2"} /\ out.q.limit = 0
    /\ \E r \in items : /\ r.id \in ReturnedIds
                         /\ <<r.feed_url, "g1">> \in feed_groups
                         /\ <<r.feed_url, "g2">> \notin feed_groups
    /\ \E r \in items : FeedIn(r, out.q.group) /\ r.deleted = 1

\* The buckets a list printed.
ShownIn(id) == {i \in 1..Len(out.shown) : id \in SeqToSet(out.shown[i].ids)}
Pos(id) == CHOOSE i \in 1..Len(out.rows) : out.rows[i] = id
KeepsOrder(ids) == \A i, j \in 1..Len(ids) : i < j => Pos(ids[i]) < Pos(ids[j])
TagsOfId(id) == (CHOOSE r \in items : r.id = id).tags
NothingUnmatchedShown ==
    \A i \in 1..Len(out.shown) :
        SeqToSet(out.shown[i].ids) \subseteq ReturnedIds /\ KeepsOrder(out.shown[i].ids)

\* C16: grouping only re-partitions the filtered, sorted result: no unmatched
\* item is shown and items keep their relative order inside each bucket;
\* unless --tags-top cuts the tag buckets every matched item is shown; under
\* group-by date, group, tier or source a matched item is in exactly one
\* bucket; under group-by tag an item with k >= 1 tags is in exactly the k
\* buckets of its tags and an item without tags is in the one bucket
\* "(none)"; with --tags-top N at most N tag buckets are shown.
C16_GroupingRepartitions ==
    Listed =>
        /\ NothingUnmatchedShown
        /\ out.q.group_by # "tag" =>
              \A id \in ReturnedIds : Cardinality(ShownIn(id)) = 1
        /\ out.q.group_by = "tag" /\ out.q.tags_top = 0 =>
              \A id \in ReturnedIds :
                  {out.shown[i].label : i \in ShownIn(id)} =
                      (IF TagsOfId(id) = {} THEN {"(none)"} ELSE TagsOfId(id))
        /\ out.q.group_by = "tag" /\ out.q.tags_top # 0 =>
              /\ Len(out.shown) <= out.q.tags_top
              /\ \A id \in ReturnedIds :
                    {out.shown[i].label : i \in ShownIn(id)} \subseteq
                        (IF TagsOfId(id) = {} THEN {"(none)"} ELSE TagsOfId(id))
C16_Witness ==
    /\ Listed /\ out.q.group_by = "tag" /\ out.q.tags_top = 0
    /\ \E id \in ReturnedIds : Cardinality(TagsOfId(id)) = 2 /\ Cardinality(ShownIn(id)) = 2
    /\ \E id \in ReturnedIds : TagsOfId(id) = {} /\ Cardinality(ShownIn(id)) = 1
    /\ \E i \in 1..Len(out.shown) : Len(out.shown[i].ids) = 2

\* C16 as the specification words it: every matched item is shown, no
\* unmatched item is shown, the order inside a bucket is kept, and under
\* group-by tag an item with k tags is in exactly k buckets.
C16_KTagsKBuckets ==
    Listed =>
        /\ NothingUnmatchedShown
        /\ \A id \in ReturnedIds : ShownIn(id) # {}
        /\ out.q.group_by = "tag" =>
              \A id \in ReturnedIds :
                  Cardinality(ShownIn(id)) = Cardinality(TagsOfId(id))

\* A step that runs a command from start to return.
Ran(cmd) == run.pc = "idle" /\ run'.pc = "done" /\ run'.cmd = cmd
RowAfter(r) == CHOOSE q \in items' : q.id = r.id
Removed(r) == \A q \in items' : q.id # r.id

\* C17: a starred item in the range and scope of an archive-by-date keeps its
\* deleted flag, and the same command with the force flag archives it.
C17_StarredProtection ==
    [][ Ran("archive_date") /\ ~run'.sel.undo =>
          \A r \in items : r.starred = 1 /\ InRange(r, run'.sel) =>
              /\ ~Removed(r)
              /\ RowAfter(r).deleted = (IF run'.sel.force THEN 1 ELSE r.deleted) ]_vars

\* The protection alone: without a force flag the starred item keeps its flag.
C17_ProtectedWithoutForce ==
    [][ Ran("archive_date") /\ ~run'.sel.undo /\ ~run'.sel.force =>
          \A r \in items : r.starred = 1 /\ InRange(r, run'.sel) =>
              ~Removed(r) /\ RowAfter(r).deleted = r.deleted ]_vars

\* C18: a row leaves items only in a purge that is not a dry run, and then it
\* was soft-deleted (--deleted) or read, not starred and older than the
\* cutoff (--before), or in a confirmed removal of the feed it belongs to.
PurgedBy(r, a) ==
    /\ ~a.dry_run
    /\ \/ a.deleted /\ r.deleted = 1
       \/ a.before # 0 /\ r.read = 1 /\ r.starred = 0 /\ r.published_ts < a.before
C18_RemovedOnlyByPurgeOrSourceRm ==
    [][ \A r \in items : Removed(r) =>
          \/ Ran("purge") /\ PurgedBy(r, run'.sel)
          \/ /\ Ran("source_rm") /\ run'.sel.yes
             /\ \A f \in feeds' : f.url # r.feed_url ]_vars
C18_Witness ==
    /\ run.pc = "done" /\ run.cmd = "purge" /\ ~run.sel.dry_run /\ run.sel.before # 0
    /\ run.sel.deleted
    /\ Cardinality(items) < item_seq
    /\ \E r \in items : r.read = 1 /\ r.starred = 1 /\ r.published_ts < run.sel.before

\* C18 as the specification words it: only a purge removes a row.
C18_RemovedOnlyByPurge ==
    [][ \A r \in items : Removed(r) => Ran("purge") /\ PurgedBy(r, run'.sel) ]_vars

\* C19: in a fetch or sync run selected by a tier set T alone, only feeds that
\* are not archived and whose tier is in T are fetched and have last_fetch_ts
\* updated; every other feed keeps its last_fetch_ts and gains no item.
TierRun(cmds) ==
    /\ run.cmd \in cmds /\ run.pc # "idle"
    /\ run.sel.tier # {} /\ ~Explicit(run.sel) /\ run.sel.group = {}
OutsideTier(f) == f.tier \notin run.sel.tier \/ f.archived # 0
TierOnly ==
    \A f \in feeds : OutsideTier(f) =>
        /\ run.outcome[f.url] = "none"
        /\ f.last_fetch_ts # clock
        /\ \A r \in items : r.feed_url = f.url => r.created_ts # clock
C19_TierSelection == TierRun({"fetch", "sync"}) => TierOnly

\* C19 for fetch runs alone.
C19_FetchTier == TierRun({"fetch"}) => TierOnly

\* C20: a per-item command whose identifier does not parse or matches no item
\* returns a non-zero status and changes no row of the store.
BadId(r, rows) ==
    \/ r.cmd \in {"mark", "archive_id"} /\ Hit(rows, r.sel.id) = {}
    \/ r.cmd = "star" /\ \A i \in 1..Len(r.sel.ids) : Hit(rows, r.sel.ids[i]) = {}
    \/ r.cmd = "delete" /\ \A iid \in DeleteIds : \A q \in rows : q.id # iid
C20_BadIdRejected ==
    [][ run.pc = "idle" /\ run'.pc = "done" /\ BadId(run', items) =>
          /\ run'.rc # 0
          /\ UNCHANGED <<feeds, feed_groups, items, tags>> ]_vars

\* The part of C20 about the store alone.
C20_BadIdChangesNothing ==
    [][ run.pc = "idle" /\ run'.pc = "done" /\ BadId(run', items) =>
          UNCHANGED <<feeds, feed_groups, items, tags>> ]_vars

\* C21: for each feed a run processes, the reported count of new items is the
\* number of rows of that feed that exist after the insert batch and did not
\* exist before it, and the run total is the sum over the feeds.
RECURSIVE SumNew(_, _)
SumNew(r, us) ==
    IF us = {} THEN 0
    ELSE LET u == CHOOSE v \in us : TRUE IN r.new[u] + SumNew(r, us \ {u})
Processed(u) == run.pc = "fetch" /\ run.outcome[u] = "none" /\ run'.outcome[u] = "ok"
AddedRows(u) == {r \in items' : r.feed_url = u /\ r.id \notin Ids(items)}
C21_NewCount ==
    [][ /\ \A u \in Urls : Processed(u) =>
              /\ run'.new[u] = Cardinality(AddedRows(u))
              /\ Ids(items) \subseteq Ids(items')
        /\ run'.pc # "idle" => run'.total_new = SumNew(run', Urls) ]_vars
C21_Witness ==
    /\ run.pc = "done" /\ run.cmd \in {"fetch", "sync"} /\ ~run.crashed
    /\ run.total_new = 2
    /\ \E u \in Urls : run.outcome[u] = "ok" /\ run.seen[u] > run.new[u]
    /\ \E r \in items : r.created_ts < clock

\* C22: delete id, delete source, archive id, archive source --delete-items
\* and archive group --delete-items (and every other step) set deleted = 1 on
\* an item that is starred at that moment only when the force flag is given.
Forced == run'.pc = "done" /\ run'.cmd \in {"delete", "delete_source"} /\ run'.sel.force
C22_StarredProtected ==
    [][ \A r \in items :
            r.starred = 1 /\ r.deleted = 0 /\ ~Removed(r) /\ RowAfter(r).deleted = 1
            => Forced ]_vars
C22_Witness ==
    /\ run.pc = "done" /\ run.cmd \in {"archive_source", "archive_group", "delete_source"}
    /\ run.rc = 0 /\ ~run.sel.undo
    /\ (run.cmd = "delete_source" => ~run.sel.force)
    /\ (run.cmd # "delete_source" => run.sel.delete_items)
    /\ \E r, q \in items : /\ r.feed_url = q.feed_url
                            /\ r.starred = 1 /\ r.deleted = 0
                            /\ q.starred = 0 /\ q.deleted = 1 /\ q.id \notin DeleteIds

\* C26: when no force flag is ever given, no item is both starred and
\* soft-deleted.
C26_NeverStarredAndDeleted ==
    \A r \in items : ~(r.starred = 1 /\ r.deleted = 1)

\* C23: in a fetch run and in the Fetch stage of a sync run, a feed whose
\* fetch succeeded gets last_fetch_ts set to the time of the run, and every
\* other feed keeps its last_fetch_ts.
FeedAfter(f) == CHOOSE g \in feeds' : g.url = f.url
StampedIffFetched(cmds) ==
    run.pc = "fetch" /\ run.cmd \in cmds =>
        \A f \in feeds :
            FeedAfter(f).last_fetch_ts = (IF Processed(f.url) THEN clock ELSE f.last_fetch_ts)
C23_LastFetchTs == [][StampedIffFetched({"fetch", "sync"})]_vars

\* C23 for fetch runs alone.
C23_FetchRuns == [][StampedIffFetched({"fetch"})]_vars

\* C24: an archived feed is never selected, never fetched and never gains
\* items in a fetch or sync run, whatever the selector, and its existing
\* items stay.
ItemIdsOf(rows, u) == {r.id : r \in {q \in rows : q.feed_url = u}}
C24_ArchivedNotFetched ==
    [][ \A f \in feeds : f.archived = 1 =>
            /\ run'.pc = "fetch" => f.url \notin run'.feed_urls
            /\ ~Processed(f.url)
            /\ ItemIdsOf(items', f.url) = ItemIdsOf(items, f.url) ]_vars
C24_Witness ==
    /\ run.pc = "done" /\ run.cmd \in {"fetch", "sync"} /\ ~run.crashed
    /\ Explicit(run.sel)
    /\ \E f \in feeds :
        /\ f.archived = 1 /\ f.rowid \in run.sel.id \cup run.sel.ids
        /\ run.outcome[f.url] = "none"
        /\ ItemIdsOf(items, f.url) # {}

\* C25: the start of a fetch or sync run and every iteration of its feed loop
\* leave each existing item row as it was (flags, watermarks, tags, content)
\* and leave the tag table alone: ingestion only adds rows.
C25_IngestionOnlyAdds ==
    [][ run'.pc = "fetch" => items \subseteq items' /\ tags' = tags ]_vars
C25_Witness ==
    /\ run.pc = "done" /\ run.cmd \in {"fetch", "sync"} /\ ~run.crashed
    /\ \E r, q \in items :
        /\ r.created_ts < clock /\ q.created_ts = clock
        /\ r.starred = 1 /\ r.tags # {}
        /\ r.auto_tagged_ts > 0 /\ r.auto_tagged_ts < clock
        /\ r.fs_exported_ts > 0 /\ r.fs_exported_ts < clock
        /\ run.outcome[r.feed_url] = "ok"
        /\ run.seen[r.feed_url] > run.new[r.feed_url]

\* C27: after a fetch or sync run, the primary group of every feed row is one
\* of the feed's memberships in feed_groups.
PrimaryIsMember(f) == <<f.url, f.grp>> \in feed_groups
C27_PrimaryGroupIsMember ==
    run.pc = "done" /\ run.cmd \in {"fetch", "sync"} /\ ~run.crashed
    => \A f \in feeds : PrimaryIsMember(f)

\* C27 for runs without a selector.
C27_DefaultRuns ==
    run.pc = "done" /\ run.cmd \in {"fetch", "sync"} /\ run.sel = DefaultSel
    => \A f \in feeds : f.url \in {sources[i].url : i \in 1..Len(sources)} => PrimaryIsMember(f)

\* C28: list, archive date and purge restricted to one source by URL or by
\* numeric id return or change only items of that source, and none when the
\* numeric id matches no feed.
TheSource(a) ==
    IF a.source_id # 0
    THEN {f.url : f \in {g \in feeds : g.rowid = a.source_id}}
    ELSE IF IsInt(a.source)
    THEN {f.url : f \in {g \in feeds : g.rowid = ToInt(a.source)}}
    ELSE {a.source}
Touched(r) == Removed(r) \/ RowAfter(r) # r
OnlyTheSource(filters) ==
    /\ out'.cmd = "list" /\ [source |-> out'.q.source, source_id |-> out'.q.source_id] \in filters
       => \A r \in items : r.id \in SeqToSet(out'.rows) => r.feed_url \in TheSource(out'.q)
    /\ (Ran("archive_date") \/ Ran("purge"))
         /\ [source |-> run'.sel.source, source_id |-> run'.sel.source_id] \in filters
       => \A r \in items : Touched(r) => r.feed_url \in TheSource(run'.sel)
C28_OnlyThatSource == [][OnlyTheSource(SourceFilters)]_vars

\* C28 for the filters that name a feed of the store or a URL.
C28_KnownSource ==
    [][OnlyTheSource(SourceFilters \ {[source |-> None, source_id |-> 9]})]_vars

\* C29: an entry without GUID, link and title gets a null dedup key and no
\* uniqueness constraint covers it: each fetch of a payload that contains it
\* inserts one more row for it.
FetchedAs(u, p) ==
    /\ Processed(u)
    /\ run'.seen[u] = Len(parse_feed(Payloads[p]))
    /\ items' = InsertAll([rows |-> items, seq |-> item_seq], u, parse_feed(Payloads[p]),
                          1, run.cmd = "sync", clock).rows
Empty(it) == ~Truthy(it.guid) /\ ~Truthy(it.link) /\ ~Truthy(it.title)
Absent(it) == it.guid = None /\ it.link = None /\ it.title = None
EntriesSuch(its, P(_)) == {i \in 1..Len(its) : P(its[i])}
OneRowEach(P(_)) ==
    \A u \in Urls, p \in FetchPayloads :
        FetchedAs(u, p) =>
            Cardinality({r \in AddedRows(u) : r.uid = None /\ P(r)})
              = Cardinality(EntriesSuch(parse_feed(Payloads[p]), P))
SameEntry(r, it) == r.guid = it.guid /\ r.title = it.title /\ r.link = it.link
Fresh(q) ==
    /\ q.read = 0 /\ q.starred = 0 /\ q.deleted = 0
    /\ q.auto_tagged_ts = 0 /\ q.fs_exported_ts = 0 /\ q.tags = {}
DeletedStays(rows) ==
    \A u \in Urls, p \in FetchPayloads :
        FetchedAs(u, p) =>
            \A r \in rows : r.deleted = 1 =>
                /\ ~Removed(r) /\ RowAfter(r) = r
                /\ \A q \in AddedRows(r.feed_url) : ~SameEntry(q, r)
PurgedReturns ==
    \A u \in Urls, p \in FetchPayloads :
        FetchedAs(u, p) =>
            LET its == parse_feed(Payloads[p])
            IN \A i \in 1..Len(its) :
                   (\A r \in items : r.feed_url = u => ~SameEntry(r, its[i]))
                   => \E q \in AddedRows(u) : SameEntry(q, its[i]) /\ Fresh(q)
C30_DeletedStaysUntilPurged == [][DeletedStays(items) /\ PurgedReturns]_vars

\* C30 for the deleted items that have a dedup key.
C30_KeyedItems ==
    [][DeletedStays({r \in items : r.uid # None}) /\ PurgedReturns]_vars

====
